---- MODULE Spec2Model ----
(***************************************************************************)
(* gbrust: the Game Boy disassembler of gb_dasm.rs.                        *)
(*                                                                         *)
(* A mnemonic template is the String built by dissasm, kept here as the   *)
(* sequence of its characters, so that the operand arity (the count of    *)
(* '#'), the CALL/JP/JR tests (substring search) and conditional() (a     *)
(* scan for 'N', 'Z' or 'C') are computed from the text as the code does. *)
(***************************************************************************)
EXTENDS Integers, Sequences, FiniteSets, TLC

\* ------------------------------------------------------------------------
\* Bounds of the model
\* ------------------------------------------------------------------------

\* longest input file, in bytes
MaxLen == 20

\* most units (output lines) decoded in one pass
MaxLines == 3

\* most units decoded in a pass that draws its opcode bytes from 0x00..0xFF
MaxDecodeLines == 1

\* operations on one CPU
MaxOps == 3

\* ------------------------------------------------------------------------
\* Integer widths
\* ------------------------------------------------------------------------

Byte == 0..255

\* `x as i8` of a u8
AsI8(x) == IF x >= 128 THEN x - 256 ELSE x

\* `x as i16` of a usize or an i8
AsI16(x) == ((x + 32768) % 65536) - 32768

\* `x as usize` of an i16: the identity on the targets of this model, which
\* are never negative (a negative i16 would sign-extend; it takes a cursor
\* beyond 0x7FFF, far past MaxLen)
AsUsize(x) == x

\* an i8 result that does not fit: the checked build panics, the unchecked
\* build wraps
FitsI8(x) == x >= -128 /\ x <= 127

WrapI8(x) == ((x + 128) % 256) - 128

\* ------------------------------------------------------------------------
\* Text helpers
\* ------------------------------------------------------------------------

\* the value of a match arm that ends in unreachable!()
Unreachable == <<"unreachable!()">>

\* format!("{}{}", a, b): evaluating either part may have panicked
Format(a, b) == IF a = Unreachable \/ b = Unreachable THEN Unreachable ELSE a \o b

HexDigits == <<"0", "1", "2", "3", "4", "5", "6", "7", "8", "9", "A", "B", "C", "D", "E", "F">>

\* format!("{:#04X}", n)
FormatHex(n) == <<"0", "x", HexDigits[(n \div 16) + 1], HexDigits[(n % 16) + 1]>>

\* str::contains(pat)
Contains(s, pat) ==
    \E i \in 1..(Len(s) - Len(pat) + 1) : SubSeq(s, i, i + Len(pat) - 1) = pat

\* str::matches("#").count()
CountArgs(s) == Cardinality({i \in DOMAIN s : s[i] = "#"})

conditional(instruction) ==
    \E i \in DOMAIN instruction : instruction[i] \in {"N", "Z", "C"}

\* combine taking its first argument for the low byte
combine_Swapped(a, b) == ((b * 256) + a) % 65536

combine(a, b) == ((a * 256) + b) % 65536

get_nibbles(n) == <<n \div 16, ((n * 16) % 256) \div 16>>

\* in_range without the lower limit of the upper nibble
in_range_NoTop(n, left, right, top, bottom) ==
    LET upper == get_nibbles(n)[1]
        lower == get_nibbles(n)[2]
    IN  lower >= left /\ lower <= right /\ upper <= bottom

in_range(n, left, right, top, bottom) ==
    LET upper == get_nibbles(n)[1]
        lower == get_nibbles(n)[2]
    IN  lower >= left /\ lower <= right /\ upper >= top /\ upper <= bottom

\* ------------------------------------------------------------------------
\* The opcode decoder: the `match byte` of dissasm
\* ------------------------------------------------------------------------

\* the exact single-byte table
ExactTable ==
    (0 :> <<"N", "O", "P">>) @@ (7 :> <<"R", "L", "C", "A">>) @@ (8 :> <<"L", "D", " ", "(", "#", "1", "#", "0", ")", ",", "S", "P">>) @@
    (14 :> <<"L", "D", "H", " ", "A", ",", "(", "#", "0", ")">>) @@ (15 :> <<"L", "D", "H", " ", "(", "#", "0", ")", ",", "A">>) @@ (16 :> <<"S", "T", "O", "P">>) @@
    (23 :> <<"R", "L", "A">>) @@ (32 :> <<"J", "R", " ", "N", "Z", ",", "#", "0">>) @@ (34 :> <<"L", "D", " ", "(", "H", "L", "+", ")", ",", "A">>) @@
    (39 :> <<"D", "A", "A">>) @@ (42 :> <<"L", "D", " ", "A", ",", "(", "H", "L", "+", ")">>) @@ (48 :> <<"J", "R", " ", "N", "C", ",", "#", "0">>) @@
    (50 :> <<"L", "D", " ", "(", "H", "L", "-", ")", ",", "A">>) @@ (55 :> <<"S", "C", "F">>) @@ (58 :> <<"L", "D", " ", "A", ",", "(", "H", "L", "-", ")">>) @@
    (118 :> <<"H", "A", "L", "T">>) @@ (195 :> <<"J", "P", " ", "#", "1", "#", "0">>) @@ (201 :> <<"R", "E", "T">>) @@
    (202 :> <<"J", "P", " ", "Z", ",", "#", "1", "#", "0">>) @@ (204 :> <<"C", "A", "L", "L", " ", "Z", ",", "#", "1", "#", "0">>) @@ (203 :> <<"C", "B", " ", "#", "0">>) @@
    (205 :> <<"C", "A", "L", "L", " ", "#", "1", "#", "0">>) @@ (218 :> <<"J", "P", " ", "C", ",", "#", "1", "#", "0">>) @@ (220 :> <<"C", "A", "L", "L", " ", "C", ",", "#", "1", "#", "0">>) @@
    (224 :> <<"L", "D", "H", " ", "(", "#", "0", ")", ",", "A">>) @@ (226 :> <<"L", "D", " ", "(", "C", ")", ",", "A">>) @@ (234 :> <<"L", "D", " ", "(", "#", "1", "#", "0", ")", ",", "A">>) @@
    (240 :> <<"L", "D", "H", " ", "A", ",", "(", "#", "0", ")">>) @@ (242 :> <<"L", "D", " ", "A", ",", "(", "C", ")">>) @@ (243 :> <<"D", "I">>) @@
    (251 :> <<"E", "I">>)

\* the register pair selected by the upper nibble 0xC..0xF
PairCF(upper) ==
    CASE upper = 12 -> <<"B", "C">> [] upper = 13 -> <<"D", "E">>
      [] upper = 14 -> <<"H", "L">> [] upper = 15 -> <<"A", "F">>
      [] OTHER -> Unreachable

\* the register pair selected by the upper nibble 0x0..0x3
Pair03(upper) ==
    CASE upper = 0 -> <<"B", "C">> [] upper = 1 -> <<"D", "E">>
      [] upper = 2 -> <<"H", "L">> [] upper = 3 -> <<"S", "P">>
      [] OTHER -> Unreachable

\* the 8-bit register selected by a lower nibble 0x0..0x7
RegLow(lower) ==
    CASE lower = 0 -> <<"B">> [] lower = 1 -> <<"C">> [] lower = 2 -> <<"D">>
      [] lower = 3 -> <<"E">> [] lower = 4 -> <<"H">> [] lower = 5 -> <<"L">>
      [] lower = 6 -> <<"(", "H", "L", ")">> [] lower = 7 -> <<"A">>
      [] OTHER -> Unreachable

\* the 8-bit register selected by a lower nibble 0x8..0xF
RegHigh(lower) ==
    CASE lower = 8 -> <<"B">> [] lower = 9 -> <<"C">> [] lower = 10 -> <<"D">>
      [] lower = 11 -> <<"E">> [] lower = 12 -> <<"H">> [] lower = 13 -> <<"L">>
      [] lower = 14 -> <<"(", "H", "L", ")">> [] lower = 15 -> <<"A">>
      [] OTHER -> Unreachable

\* Predicates with the seventh range reaching the lower nibble 0x8 of the
\* eighth
Predicates_Overlapping ==
    << <<1, 1, 12, 15>>, <<15, 15, 12, 15>>, <<5, 5, 12, 15>>, <<14, 14, 12, 15>>,
       <<10, 11, 0, 3>>, <<12, 14, 0, 3>>, <<0, 8, 8, 11>>, <<8, 15, 8, 11>>,
       <<8, 8, 1, 3>>, <<2, 3, 0, 3>>, <<1, 1, 0, 3>>, <<8, 15, 4, 7>>,
       <<6, 6, 12, 15>>, <<0, 7, 4, 7>>, <<4, 6, 0, 3>> >>

\* the nibble-range predicates, in the order of the if / else-if cascade
Predicates ==
    << <<1, 1, 12, 15>>, <<15, 15, 12, 15>>, <<5, 5, 12, 15>>, <<14, 14, 12, 15>>,
       <<10, 11, 0, 3>>, <<12, 14, 0, 3>>, <<0, 7, 8, 11>>, <<8, 15, 8, 11>>,
       <<8, 8, 1, 3>>, <<2, 3, 0, 3>>, <<1, 1, 0, 3>>, <<8, 15, 4, 7>>,
       <<6, 6, 12, 15>>, <<0, 7, 4, 7>>, <<4, 6, 0, 3>> >>

Matches(n, k) ==
    in_range(n, Predicates[k][1], Predicates[k][2], Predicates[k][3], Predicates[k][4])

\* the body of the k-th branch of the cascade
Family(k, n) ==
    LET upper == get_nibbles(n)[1]
        lower == get_nibbles(n)[2]
    IN  CASE k = 1 -> Format(<<"P", "O", "P", " ">>, PairCF(upper))
          [] k = 2 -> Format(<<"R", "S", "T", " ">>,
                        CASE upper = 12 -> <<"$", "0", "0">> [] upper = 13 -> <<"$", "1", "0">>
                          [] upper = 14 -> <<"$", "2", "0">> [] upper = 15 -> <<"$", "3", "0">>
                          [] OTHER -> Unreachable)
          [] k = 3 -> Format(<<"P", "U", "S", "H", " ">>, PairCF(upper))
          [] k = 4 -> Format(CASE upper = 12 -> <<"A", "D", "C", " ", "A", ",">> [] upper = 13 -> <<"S", "B", "C", " ", "A", ",">>
                               [] upper = 14 -> <<"X", "O", "R", " ">> [] upper = 15 -> <<"C", "P", " ">>
                               [] OTHER -> Unreachable,
                             <<"$", "0">>)
          [] k = 5 -> LET register == Pair03(upper)
                      IN  CASE lower = 10 -> Format(<<"L", "D", " ", "A", ",", "(">>, Format(register, <<")">>))
                            [] lower = 11 -> Format(<<"D", "E", "C", " ">>, register)
                            [] OTHER -> Unreachable
          [] k = 6 -> LET register ==
                              CASE upper = 0 -> <<"C">> [] upper = 1 -> <<"E">>
                                [] upper = 2 -> <<"L">> [] upper = 3 -> <<"A">>
                                [] OTHER -> Unreachable
                      IN  CASE lower = 12 -> Format(<<"I", "N", "C", " ">>, register)
                            [] lower = 13 -> Format(<<"D", "E", "C", " ">>, register)
                            [] lower = 14 -> Format(<<"L", "D", " ">>, Format(register, <<",", "#", "0">>))
                            [] OTHER -> Unreachable
          [] k = 7 -> Format(CASE upper = 8 -> <<"A", "D", "D", " ", "A", ",">> [] upper = 9 -> <<"S", "U", "B", " ">>
                               [] upper = 10 -> <<"A", "N", "D", " ">> [] upper = 11 -> <<"O", "R", " ">>
                               [] OTHER -> Unreachable,
                             RegLow(lower))
          [] k = 8 -> Format(CASE upper = 8 -> <<"A", "D", "C", " ", "A", ",">> [] upper = 9 -> <<"S", "B", "C", " ", "A", ",">>
                               [] upper = 10 -> <<"X", "O", "R", " ">> [] upper = 11 -> <<"C", "P", " ">>
                               [] OTHER -> Unreachable,
                             RegHigh(lower))
          [] k = 9 -> Format(<<"J", "R", " ">>,
                        Format(CASE upper = 1 -> <<>> [] upper = 2 -> <<"Z", ",">>
                                 [] upper = 3 -> <<"C", ",">> [] OTHER -> Unreachable,
                               <<"#", "0">>))
          [] k = 10 -> LET to == Pair03(upper)
                       IN  CASE lower = 2 -> Format(<<"L", "D", " ", "(">>, Format(to, <<")", ",", "A">>))
                             [] lower = 3 -> Format(<<"I", "N", "C", " ">>, to)
                             [] OTHER -> Unreachable
          [] k = 11 -> Format(<<"L", "D", " ">>, Format(Pair03(upper), <<",", "#", "1", "#", "0">>))
          [] k = 12 -> LET to ==
                               CASE upper = 4 -> <<"C">> [] upper = 5 -> <<"E">>
                                 [] upper = 6 -> <<"L">> [] upper = 7 -> <<"A">>
                                 [] OTHER -> Unreachable
                       IN  Format(<<"L", "D", " ">>, Format(to, Format(<<",">>, RegHigh(lower))))
          [] k = 13 -> Format(CASE upper = 12 -> <<"A", "D", "D", " ", "a", ",">> [] upper = 13 -> <<"S", "U", "B", " ">>
                                [] upper = 14 -> <<"A", "N", "D", " ">> [] upper = 15 -> <<"O", "R", " ">>
                                [] OTHER -> Unreachable,
                              <<"#", "0">>)
          [] k = 14 -> LET to ==
                               CASE upper = 4 -> <<"B">> [] upper = 5 -> <<"D">>
                                 [] upper = 6 -> <<"H">> [] upper = 7 -> <<"(", "H", "L", ")">>
                                 [] OTHER -> Unreachable
                       IN  Format(<<"L", "D", " ">>, Format(to, Format(<<",">>, RegLow(lower))))
          [] k = 15 -> LET register ==
                               CASE upper = 0 -> <<"B">> [] upper = 1 -> <<"D">>
                                 [] upper = 2 -> <<"H">> [] upper = 3 -> <<"(", "H", "L", ")">>
                                 [] OTHER -> Unreachable
                       IN  CASE lower = 4 -> Format(<<"I", "N", "C", " ">>, register)
                             [] lower = 5 -> Format(<<"D", "E", "C", " ">>, register)
                             [] lower = 6 -> Format(<<"L", "D", " ">>, Format(register, <<",", "#", "0">>))
                             [] OTHER -> Unreachable

\* the `n =>` arm: the first predicate that matches, else the hex fallback
Cascade(n) ==
    IF \E k \in DOMAIN Predicates : Matches(n, k)
    THEN Family(CHOOSE k \in DOMAIN Predicates :
                    Matches(n, k) /\ \A j \in 1..(k - 1) : ~Matches(n, j), n)
    ELSE FormatHex(n)

\* Decode trying the cascade before the table
Decode_CascadeFirst(byte) ==
    IF \E k \in DOMAIN Predicates : Matches(byte, k) THEN Cascade(byte)
    ELSE IF byte \in DOMAIN ExactTable THEN ExactTable[byte]
    ELSE Cascade(byte)

\* let instruction: String = match byte { ... }
Decode(byte) ==
    IF byte \in DOMAIN ExactTable THEN ExactTable[byte] ELSE Cascade(byte)

\* every template, computed once
Templates == [n \in Byte |-> Decode(n)]

\* ------------------------------------------------------------------------
\* The input files of the model
\* ------------------------------------------------------------------------

\* opcode bytes of the pass: NOP, LD BC,#1#0, LD B,#0, JR, JR NZ, JP, RET,
\* JP Z, CALL Z, CALL, and 0xD3 (no table entry, no predicate)
Opcodes == {0, 1, 6, 24, 32, 195, 201, 202, 204, 205, 211}

\* 8-bit operands and the low bytes of 16-bit operands.  As a JR operand:
\* 0x05..0x07 forward, 0x7E where the i8 addition overflows, 0xFC backward,
\* 0xFE the offset 0
Operands == {5, 6, 7, 126, 252, 254}

\* the high bytes of 16-bit operands
HighOperands == {0, 1}

\* ------------------------------------------------------------------------
\* State
\* ------------------------------------------------------------------------

VARIABLES
    bytes,            \* Disassembly.bytes: the cursor
    data_ends,        \* Disassembly.data_ends: the data bound, 0 for none
    calls,            \* Disassembly.calls: Vec<usize>
    jumps_forward,    \* Disassembly.jumps_forward: Vec<usize>
    pos,              \* number of bytes the stream has delivered
    byte,             \* dissasm: the opcode byte of the current iteration
    instruction,      \* dissasm: its mnemonic template
    pc,               \* "loop", "parse" (in parse_line), "done", "panic"
    fault,            \* the cause of the panic
    nlines,           \* number of lines printed
    line,             \* the last line printed
    before,           \* the cursor, the tracker and the unit last emitted when
                      \* parse_line was last entered
    overflow_checks,  \* whether the build panics on integer overflow
    cpu,              \* cpu.rs: the CPU
    op,               \* cpu.rs: the last operation on the CPU, with the CPU before it
    test              \* cpu.rs: the locals of one iteration of a round-trip test

vars == <<bytes, data_ends, calls, jumps_forward, pos, byte, instruction,
          pc, fault, nlines, line, before, overflow_checks, cpu, op, test>>

machine == <<cpu, op, test>>

tracker == <<data_ends, calls, jumps_forward>>

NoByte == -1

NoLine == [addr |-> 0, data |-> FALSE, len |-> 0, byte |-> NoByte, args |-> <<>>]

\* the unit a line stands for: where it starts, its kind and its length
Unit(l) == [addr |-> l.addr, data |-> l.data, len |-> l.len]

\* CPU::new
CPUNew ==
    [clock |-> [m |-> 0, t |-> 0],
     reg8 |-> <<0, 0, 0, 0, 0, 0, 0>>,
     m |-> 0, t |-> 0, pc |-> 0, sp |-> 0,
     flags |-> [add |-> FALSE, half_carry |-> FALSE, carry |-> FALSE]]

\* pub enum R8: a register, or CONST(n)
R8(name) == [r |-> name, n |-> 0]

CONST(n) == [r |-> "CONST", n |-> n]

\* no operation yet
NoOp == [name |-> "new", n |-> 0, fst |-> R8("A"), snd |-> R8("A"), time |-> 0,
         pre |-> CPUNew, fault |-> "none"]

\* no test running
NoTest == [pc |-> "start", i |-> 0, j |-> 0, high |-> 0, low |-> 0, combined |-> 0]

\* Disassembly::new, before the first iteration of dissasm; CPU::new
Init ==
    /\ bytes = 0
    /\ data_ends = 0
    /\ calls = <<>>
    /\ jumps_forward = <<>>
    /\ pos = 0
    /\ byte = NoByte
    /\ instruction = <<>>
    /\ pc = "loop"
    /\ fault = "none"
    /\ nlines = 0
    /\ line = NoLine
    /\ before = [bytes |-> 0, data_ends |-> 0, calls |-> <<>>, jumps_forward |-> <<>>,
                 unit |-> Unit(NoLine)]
    /\ overflow_checks \in BOOLEAN
    /\ cpu = CPUNew
    /\ op = NoOp
    /\ test = NoTest

\* ------------------------------------------------------------------------
\* The tracker
\* ------------------------------------------------------------------------

Min(a, b) == IF a <= b THEN a ELSE b

Elems(s) == {s[i] : i \in DOMAIN s}

\* .filter(|n| n > &self.bytes).min().unwrap_or(0)
MinAbove(s, cursor) ==
    LET above == {n \in Elems(s) : n > cursor}
    IN  IF above = {} THEN 0 ELSE CHOOSE n \in above : \A o \in above : n <= o

\* check_if_data_segment looking at the forward jumps only when no call is
\* ahead
check_if_data_segment_CallsFirst(cursor, pending_calls, pending_jumps) ==
    LET n == MinAbove(pending_jumps, cursor)
        m == MinAbove(pending_calls, cursor)
    IN  IF m = 0 THEN n ELSE m

\* the value check_if_data_segment stores in data_ends
check_if_data_segment(cursor, pending_calls, pending_jumps) ==
    LET n == MinAbove(pending_jumps, cursor)
        m == MinAbove(pending_calls, cursor)
    IN  IF n = 0 THEN m ELSE IF m = 0 THEN n ELSE Min(n, m)

\* IsData taking the bound itself for data
IsData_Inclusive(cursor, bound) == cursor <= bound

\* let is_data = self.bytes < self.data_ends
IsData(cursor, bound) == cursor < bound

\* Prune keeping a call at the address of the RET
Prune_Inclusive(pending_calls, cursor) ==
    LET Keep(n) == n >= cursor IN SelectSeq(pending_calls, Keep)

\* the calls a RET keeps
Prune(pending_calls, cursor) ==
    LET Keep(n) == n > cursor IN SelectSeq(pending_calls, Keep)

\* DataLoop ending the run where the stream ends
RECURSIVE DataLoop_Partial(_, _, _, _, _)
DataLoop_Partial(cursor, bound, avail, n, data_bytes) ==
    IF n = 16 THEN [ok |-> TRUE, data_bytes |-> data_bytes]
    ELSE IF n # 0 /\ n > avail THEN [ok |-> TRUE, data_bytes |-> data_bytes]
    ELSE IF cursor + data_bytes + 1 >= bound
         THEN [ok |-> TRUE, data_bytes |-> data_bytes + 1]
         ELSE DataLoop_Partial(cursor, bound, avail, n + 1, data_bytes + 1)

\* DataLoop breaking one byte late
RECURSIVE DataLoop_Overrun(_, _, _, _, _)
DataLoop_Overrun(cursor, bound, avail, n, data_bytes) ==
    IF n = 16 THEN [ok |-> TRUE, data_bytes |-> data_bytes]
    ELSE IF n # 0 /\ n > avail THEN [ok |-> FALSE, data_bytes |-> data_bytes]
    ELSE IF cursor + data_bytes + 1 > bound
         THEN [ok |-> TRUE, data_bytes |-> data_bytes + 1]
         ELSE DataLoop_Overrun(cursor, bound, avail, n + 1, data_bytes + 1)

\* the loop of the data branch when the stream holds `avail` more bytes:
\* iteration n with data_bytes bytes counted so far
RECURSIVE DataLoop(_, _, _, _, _)
DataLoop(cursor, bound, avail, n, data_bytes) ==
    IF n = 16 THEN [ok |-> TRUE, data_bytes |-> data_bytes]
    ELSE IF n # 0 /\ n > avail THEN [ok |-> FALSE, data_bytes |-> data_bytes]
    ELSE IF cursor + data_bytes + 1 >= bound
         THEN [ok |-> TRUE, data_bytes |-> data_bytes + 1]
         ELSE DataLoop(cursor, bound, avail, n + 1, data_bytes + 1)

\* (arg as i8) + 2, before it is stored in an i8
Offset(arg) == AsI8(arg) + 2

\* the tracker after the arity-0 branch
Args0(ins, cursor, pending_calls, pending_jumps) ==
    IF ins = <<"R", "E", "T">>
    THEN LET new_calls == Prune(pending_calls, cursor)
         IN  [calls |-> new_calls, jumps_forward |-> pending_jumps,
              data_ends |-> check_if_data_segment(cursor, new_calls, pending_jumps)]
    ELSE [calls |-> pending_calls, jumps_forward |-> pending_jumps, data_ends |-> 0]

\* Args1 recomputing the bound on every backward jump, conditional or not
Args1_BackwardAlways(ins, cursor, pending_calls, pending_jumps, offset) ==
    LET address == AsI16(AsI16(cursor) + AsI16(offset))
        none == [calls |-> pending_calls, jumps_forward |-> pending_jumps,
                 data_ends |-> 0]
    IN  IF ~Contains(ins, <<"J", "R">>) THEN none
        ELSE IF offset > 0
             THEN IF conditional(ins)
                  THEN [none EXCEPT !.jumps_forward = Append(pending_jumps, AsUsize(address))]
                  ELSE none
        ELSE IF offset < 0
             THEN [none EXCEPT !.data_ends =
                       check_if_data_segment(cursor, pending_calls, pending_jumps)]
        ELSE none

\* the tracker after the arity-1 branch, offset being the value of the i8
Args1(ins, cursor, pending_calls, pending_jumps, offset) ==
    LET address == AsI16(AsI16(cursor) + AsI16(offset))
        none == [calls |-> pending_calls, jumps_forward |-> pending_jumps,
                 data_ends |-> 0]
    IN  IF ~Contains(ins, <<"J", "R">>) THEN none
        ELSE IF offset > 0
             THEN IF conditional(ins)
                  THEN [none EXCEPT !.jumps_forward = Append(pending_jumps, AsUsize(address))]
                  ELSE none
        ELSE IF offset < 0
             THEN IF ~conditional(ins)
                  THEN [none EXCEPT !.data_ends =
                            check_if_data_segment(cursor, pending_calls, pending_jumps)]
                  ELSE none
        ELSE none

\* Args2 ending the window of a JP at a pending address below its target
Args2_JumpConsults(ins, cursor, pending_calls, pending_jumps, arg1, arg2) ==
    LET address == combine(arg2, arg1)
        new_calls == IF Contains(ins, <<"C", "A", "L", "L">>) /\ address > cursor
                     THEN Append(pending_calls, address)
                     ELSE pending_calls
        pending == check_if_data_segment(cursor, new_calls, pending_jumps)
    IN  [calls |-> new_calls, jumps_forward |-> pending_jumps,
         data_ends |-> IF Contains(ins, <<"J", "P">>) /\ ~conditional(ins)
                       THEN IF pending # 0 /\ pending < address THEN pending ELSE address
                       ELSE 0]

\* Args2 recording a call to the cursor itself
Args2_CallInclusive(ins, cursor, pending_calls, pending_jumps, arg1, arg2) ==
    LET address == combine(arg2, arg1)
        new_calls == IF Contains(ins, <<"C", "A", "L", "L">>) /\ address >= cursor
                     THEN Append(pending_calls, address)
                     ELSE pending_calls
    IN  [calls |-> new_calls, jumps_forward |-> pending_jumps,
         data_ends |-> IF Contains(ins, <<"J", "P">>) /\ ~conditional(ins)
                       THEN address ELSE 0]

\* the tracker after the arity-2 branch
Args2(ins, cursor, pending_calls, pending_jumps, arg1, arg2) ==
    LET address == combine(arg2, arg1)
        new_calls == IF Contains(ins, <<"C", "A", "L", "L">>) /\ address > cursor
                     THEN Append(pending_calls, address)
                     ELSE pending_calls
    IN  [calls |-> new_calls, jumps_forward |-> pending_jumps,
         data_ends |-> IF Contains(ins, <<"J", "P">>) /\ ~conditional(ins)
                       THEN address ELSE 0]

\* ------------------------------------------------------------------------
\* The pass
\* ------------------------------------------------------------------------

Panic(cause) ==
    /\ pc' = "panic"
    /\ fault' = cause

\* Emit moving the cursor past the opcode byte only
Emit_OneByte(is_data, consumed, args) ==
    /\ line' = [addr |-> bytes, data |-> is_data, len |-> consumed, byte |-> byte,
                args |-> args]
    /\ nlines' = nlines + 1
    /\ bytes' = bytes + 1
    /\ pc' = "loop"
    /\ fault' = fault
    /\ byte' = NoByte
    /\ instruction' = <<>>

\* println! of one unit, and the cursor moving past it, which ends the
\* iteration.  A line keeps the address, the opcode byte and the operand bytes
\* it renders; the bytes of a data run after the first are not kept
Emit(is_data, consumed, args) ==
    /\ line' = [addr |-> bytes, data |-> is_data, len |-> consumed, byte |-> byte,
                args |-> args]
    /\ nlines' = nlines + 1
    /\ bytes' = bytes + consumed
    /\ pc' = "loop"
    /\ fault' = fault
    /\ byte' = NoByte
    /\ instruction' = <<>>

\* while let Some(val) = disassembly.next(): one byte is read and decoded
Fetch(alphabet, most) ==
    /\ pc = "loop"
    /\ nlines < most
    /\ pos < MaxLen
    /\ \E b \in alphabet :
          /\ pos' = pos + 1
          /\ byte' = b
          /\ IF Templates[b] = Unreachable
             THEN Panic("unreachable") /\ instruction' = <<>>
             ELSE pc' = "parse" /\ fault' = fault /\ instruction' = Templates[b]
    /\ UNCHANGED <<bytes, tracker, nlines, line, before, overflow_checks, machine>>

\* the stream is exhausted on a unit boundary: the loop ends
Exhausted ==
    /\ pc = "loop"
    /\ pc' = "done"
    /\ UNCHANGED <<bytes, tracker, pos, byte, instruction, fault, nlines, line,
                   before, overflow_checks, machine>>

\* Disarm clearing the bound whether or not the step is data
Disarm_Always(is_data, bound) == 0

\* if !is_data { self.data_ends = 0; }
Disarm(is_data, bound) == IF is_data THEN bound ELSE 0

\* Truncated looking at the first operand byte only
Truncated_FirstOnly(number_of_args, avail) == number_of_args > 0 /\ avail < 1

\* unwrap of a None: the stream ends before the operands are read
Truncated(number_of_args, avail) == avail < number_of_args

\* parse_line(instruction, byte).  `avail` is the number of bytes the stream
\* still holds, counted up to the most this call can read (15 in a data run,
\* else the arity)
ParseLine ==
    /\ pc = "parse"
    /\ \E avail \in 0..Min(IF IsData(bytes, data_ends) THEN 15 ELSE CountArgs(instruction),
                           MaxLen - pos) :
       LET is_data == IsData(bytes, data_ends)
           bound == Disarm(is_data, data_ends)
           number_of_args == CountArgs(instruction)
           Abort(cause, reads) ==
               /\ Panic(cause)
               /\ pos' = pos + reads
               /\ data_ends' = bound
               /\ UNCHANGED <<bytes, calls, jumps_forward, nlines, line, byte,
                              instruction>>
           Update(t, args) ==
               /\ Emit(FALSE, number_of_args + 1, args)
               /\ pos' = pos + Min(avail, number_of_args)
               /\ calls' = t.calls
               /\ jumps_forward' = t.jumps_forward
               /\ data_ends' = t.data_ends
       IN  IF is_data
           THEN LET run == DataLoop(bytes, bound, avail, 0, 0)
                IN  IF run.ok
                    THEN /\ Emit(TRUE, run.data_bytes, <<>>)
                         /\ pos' = pos + Min(avail, run.data_bytes - 1)
                         /\ data_ends' = bound
                         /\ UNCHANGED <<calls, jumps_forward>>
                    ELSE Abort("unwrap", avail)
           ELSE CASE number_of_args = 0 ->
                       Update(Args0(instruction, bytes, calls, jumps_forward), <<>>)
                  [] number_of_args = 1 ->
                       IF Truncated(1, avail) THEN Abort("unwrap", avail)
                       ELSE \E arg \in Operands :
                              IF FitsI8(Offset(arg)) \/ ~Contains(instruction, <<"J", "R">>)
                              THEN Update(Args1(instruction, bytes, calls,
                                                jumps_forward, Offset(arg)), <<arg>>)
                              ELSE IF overflow_checks
                                   THEN Abort("overflow", 1)
                                   ELSE Update(Args1(instruction, bytes, calls,
                                                     jumps_forward,
                                                     WrapI8(Offset(arg))), <<arg>>)
                  [] number_of_args = 2 ->
                       IF Truncated(2, avail) THEN Abort("unwrap", avail)
                       ELSE \E arg1 \in Operands, arg2 \in HighOperands :
                              Update(Args2(instruction, bytes, calls,
                                           jumps_forward, arg1, arg2), <<arg1, arg2>>)
                  [] OTHER -> Abort("# OF ARGS", 0)
    /\ before' = [bytes |-> bytes, data_ends |-> data_ends, calls |-> calls,
                  jumps_forward |-> jumps_forward, unit |-> Unit(line)]
    /\ UNCHANGED <<overflow_checks, machine>>

\* a pass over a file of the model
Next ==
    \/ Fetch(Opcodes, MaxLines)
    \/ Exhausted
    \/ ParseLine

Spec == Init /\ [][Next]_vars

\* the pass as the process runs it: it does not stop while a step is possible
SpecFair == Init /\ [][Next]_vars /\ WF_vars(Next)

\* a pass whose opcode bytes are any of 0x00..0xFF
NextDecode ==
    \/ Fetch(Byte, MaxDecodeLines)
    \/ Exhausted
    \/ ParseLine

SpecDecode == Init /\ [][NextDecode]_vars

\* ------------------------------------------------------------------------
\* cpu.rs
\* ------------------------------------------------------------------------

disassembler == <<bytes, data_ends, calls, jumps_forward, pos, byte, instruction,
                  pc, fault, nlines, line, before, overflow_checks>>

\* u8 & u8
RECURSIVE BitAnd(_, _)
BitAnd(x, y) ==
    IF x = 0 \/ y = 0 THEN 0
    ELSE ((x % 2) * (y % 2)) + (2 * BitAnd(x \div 2, y \div 2))

\* u8 | u8
RECURSIVE BitOr(_, _)
BitOr(x, y) ==
    IF x = 0 THEN y
    ELSE IF y = 0 THEN x
    ELSE (IF x % 2 = 1 \/ y % 2 = 1 THEN 1 ELSE 0) + (2 * BitOr(x \div 2, y \div 2))

\* the place of a register in reg8, counted from 1
RegIndex(register) ==
    CASE register.r = "A" -> 1
      [] register.r = "B" -> 2
      [] register.r = "C" -> 3
      [] register.r = "D" -> 4
      [] register.r = "E" -> 5
      [] register.r = "H" -> 6
      [] register.r = "L" -> 7

\* a method that returned, and one that panicked leaving the CPU as it was
\* at the panic
Returned(c) == [cpu |-> c, fault |-> "none"]

Panicked(c, cause) == [cpu |-> c, fault |-> cause]

\* u8 arithmetic: an overflowing result panics where the build checks
\* overflow and wraps where it does not
Overflows(x) == x > 255 /\ overflow_checks

tick(c, time) ==
    LET ticked == [c EXCEPT !.m = time]
    IN  IF Overflows(time * 4) THEN Panicked(ticked, "overflow")
        ELSE Returned([ticked EXCEPT !.t = (time * 4) % 256])

update_clock(c) ==
    LET added_m == [c EXCEPT !.clock.m = (c.clock.m + c.m) % 256]
        added_t == [added_m EXCEPT !.clock.t = (c.clock.t + c.t) % 256]
    IN  IF Overflows(c.clock.m + c.m) THEN Panicked(c, "overflow")
        ELSE IF Overflows(c.clock.t + c.t) THEN Panicked(added_m, "overflow")
        ELSE Returned([added_t EXCEPT !.m = 0, !.t = 0])

fetch8(c, register) ==
    IF register.r = "CONST" THEN register.n ELSE c.reg8[RegIndex(register)]

set8(c, register, value) ==
    IF register.r = "CONST" THEN Panicked(c, "Tried to set 8-bit constant!")
    ELSE tick([c EXCEPT !.reg8[RegIndex(register)] = value], 2)

and(c, register) ==
    LET res == BitOr(fetch8(c, register), fetch8(c, R8("A")))
    IN  set8(c, R8("A"), res)

detect_half_carry_LowNibble(fst, snd) == BitAnd(fst % 16, snd % 16) # 0

detect_half_carry(fst, snd) == BitAnd(fst \div 16, snd \div 16) # 0

add8(c, fst, snd) ==
    LET flagged == [c EXCEPT !.flags.add = TRUE]
        i == fetch8(flagged, fst)
        j == fetch8(flagged, snd)
        res == i + j
        stored == IF res > 255
                  THEN set8([flagged EXCEPT !.flags.carry = TRUE], fst, (i + j) % 256)
                  ELSE set8(flagged, fst, i + j)
    IN  IF stored.fault # "none" THEN stored
        ELSE Returned([stored.cpu EXCEPT !.flags.half_carry = detect_half_carry(i, j)])

u8s_to_u16(high, low) == (((high * 256) % 65536) + low) % 65536

u16_to_u8s_Swapped(wbyte) == <<wbyte % 256, (wbyte \div 256) % 256>>

u16_to_u8s(wbyte) == <<(wbyte \div 256) % 256, wbyte % 256>>

\* registers, values and m-cycle counts the operations are called with
Registers == {R8("A"), R8("B")}

Values == {15, 16, 240, 255}

Times == {1, 63, 64}

Operands8 == Registers \cup {CONST(v) : v \in Values}

\* one call on the CPU; nothing is called after a panic
Operate(name, fst, snd, time, outcome) ==
    /\ op.n < MaxOps
    /\ op.fault = "none"
    /\ cpu' = outcome.cpu
    /\ op' = [name |-> name, n |-> op.n + 1, fst |-> fst, snd |-> snd, time |-> time,
              pre |-> cpu, fault |-> outcome.fault]
    /\ UNCHANGED <<disassembler, test>>

Tick == \E time \in Times : Operate("tick", R8("A"), R8("A"), time, tick(cpu, time))

UpdateClock == Operate("update_clock", R8("A"), R8("A"), 0, update_clock(cpu))

Set8 ==
    \E register \in Registers \cup {CONST(0)}, value \in Values :
        Operate("set8", register, CONST(value), 0, set8(cpu, register, value))

And == \E register \in Operands8 : Operate("and", register, R8("A"), 0, and(cpu, register))

Add8 ==
    \E fst \in Registers, snd \in Operands8 :
        Operate("add8", fst, snd, 0, add8(cpu, fst, snd))

NextCPU ==
    \/ Tick
    \/ UpdateClock
    \/ Set8
    \/ And
    \/ Add8

SpecCPU == Init /\ [][NextCPU]_vars

\* u16_splitting_and_combining_rational: one iteration, split then combine
SplitU16 ==
    /\ test.pc = "start"
    /\ \E i \in 0..65535 :
           LET split == u16_to_u8s(i)
           IN  test' = [test EXCEPT !.pc = "split", !.i = i,
                                    !.high = split[1], !.low = split[2]]
    /\ UNCHANGED <<disassembler, cpu, op>>

CombineSplit ==
    /\ test.pc = "split"
    /\ test' = [test EXCEPT !.pc = "recombined",
                            !.combined = u8s_to_u16(test.high, test.low)]
    /\ UNCHANGED <<disassembler, cpu, op>>

\* u8_combining_and_splitting_rational: one iteration, combine then split
CombineU8s ==
    /\ test.pc = "start"
    /\ \E i \in Byte, j \in Byte :
           test' = [test EXCEPT !.pc = "combined", !.i = i, !.j = j,
                                !.combined = u8s_to_u16(i, j)]
    /\ UNCHANGED <<disassembler, cpu, op>>

SplitCombined ==
    /\ test.pc = "combined"
    /\ LET split == u16_to_u8s(test.combined)
       IN  test' = [test EXCEPT !.pc = "resplit", !.high = split[1], !.low = split[2]]
    /\ UNCHANGED <<disassembler, cpu, op>>

NextRoundTrip ==
    \/ SplitU16
    \/ CombineSplit
    \/ CombineU8s
    \/ SplitCombined

SpecRoundTrip == Init /\ [][NextRoundTrip]_vars

\* ------------------------------------------------------------------------
\* Properties
\* ------------------------------------------------------------------------

\* a unit has been emitted and the pass has not panicked since: `line` is
\* the unit emitted by the parse_line that was entered at `before`
Stepped == nlines > 0 /\ pc # "panic"

\* a byte read as a two's-complement number
Signed8(b) == IF b >= 128 THEN b - 256 ELSE b

\* JR, JR NZ, JR Z, JR NC, JR C
RelativeJumps == {24, 32, 40, 48, 56}

ConditionalRelativeJumps == {32, 40, 48, 56}

\* the opcodes the instruction set leaves unassigned
Unassigned == {211, 219, 221, 227, 228, 235, 236, 237, 244, 252, 253}

\* C1: the cursor starts at 0 and never decreases; every emitted unit starts
\* at the cursor and moves it by the unit's byte count, 1 + arity for an
\* instruction; on every unit boundary the cursor is the number of bytes read
\* from the stream.
C1_CursorCountsBytesRead ==
    /\ bytes >= before.bytes
    /\ nlines = 0 => bytes = 0
    /\ pc \in {"loop", "done"} => bytes = pos
    /\ Stepped =>
         /\ line.addr = before.bytes
         /\ bytes = line.addr + line.len
         /\ ~line.data => line.len = 1 + CountArgs(Templates[line.byte])

\* JP, a data run of 2 bytes, a one-byte instruction: 3 + 2 + 1 bytes
C1_Witness ==
    /\ pc = "done" /\ nlines = 3
    /\ bytes = 6 /\ pos = 6
    /\ ~line.data /\ line.addr = 5 /\ line.len = 1
    /\ before.unit.data /\ before.unit.len = 2

\* C2: a step that begins with cursor < DataBound emits a data run of exactly
\* min(16, DataBound - cursor) bytes; a data run is 1 to 16 bytes long and
\* leaves the cursor at most at DataBound.
C2_DataRunLength ==
    Stepped =>
      /\ before.bytes < before.data_ends =>
           /\ line.data
           /\ line.len = IF before.data_ends - before.bytes < 16
                         THEN before.data_ends - before.bytes ELSE 16
      /\ line.data =>
           /\ line.len \in 1..16
           /\ bytes = before.bytes + line.len
           /\ bytes <= before.data_ends

\* a run cut at 16 bytes with the bound still ahead
C2_Witness ==
    /\ Stepped /\ line.data /\ line.len = 16
    /\ before.data_ends - before.bytes > 16
    /\ bytes < data_ends

\* C3: after a RET decoded as an instruction at address R the pending calls
\* are exactly the previously pending calls strictly greater than R.
C3_RetPrunesPassedCalls ==
    (Stepped /\ ~line.data /\ line.byte = 201) =>
        Elems(calls) = {a \in Elems(before.calls) : a > line.addr}

\* a RET at R with R and R + 1 pending: R goes, R + 1 stays
C3_Witness ==
    /\ Stepped /\ ~line.data /\ line.byte = 201
    /\ {line.addr, line.addr + 1} \subseteq Elems(before.calls)
    /\ calls = <<line.addr + 1>>

\* C4: while the cursor is below an armed bound B every unit is a data run
\* that keeps B and does not pass it; a data run therefore ends at or before
\* B, and when it ends at B the next unit is an instruction, after which B
\* is no longer the bound unless that instruction is a JP to B.
C4_WindowEndsAtBound ==
    Stepped =>
      /\ before.bytes < before.data_ends =>
           /\ line.data
           /\ bytes <= before.data_ends
           /\ data_ends = before.data_ends
      /\ before.unit.data =>
           /\ before.bytes <= before.data_ends
           /\ before.bytes = before.data_ends =>
                /\ ~line.data
                /\ line.addr = before.data_ends
                /\ data_ends = before.data_ends => line.byte = 195

\* Scenario A: C3 05 00 xx xx C9
C4_Witness ==
    /\ pc = "done" /\ nlines = 3
    /\ ~line.data /\ line.byte = 201 /\ line.addr = 5
    /\ before.unit = [addr |-> 3, data |-> TRUE, len |-> 2]
    /\ before.data_ends = 5
    /\ data_ends = 0

\* C5: a relative jump with operand byte b decoded at c has the corrected
\* offset signed8(b) + 2, for every b; when the offset is positive and the
\* jump conditional, c + signed8(b) + 2 is appended to the forward jumps.
C5_RelativeJumpTarget ==
    /\ fault # "overflow"
    /\ (Stepped /\ ~line.data /\ line.byte \in RelativeJumps) =>
         LET offset == Signed8(line.args[1]) + 2
             target == line.addr + offset
         IN  (offset > 0 /\ line.byte \in ConditionalRelativeJumps) =>
                /\ target > line.addr
                /\ jumps_forward = Append(before.jumps_forward, target)

\* C6: a relative jump that is neither forward and conditional nor backward
\* and unconditional leaves both pending sets alone and does not recompute
\* DataBound, which stays none.
C6_OtherRelativeJumpsInert ==
    (Stepped /\ ~line.data /\ line.byte \in RelativeJumps) =>
        LET offset == Signed8(line.args[1]) + 2
            cond == line.byte \in ConditionalRelativeJumps
        IN  (~(offset > 0 /\ cond) /\ ~(offset < 0 /\ ~cond)) =>
               /\ calls = before.calls
               /\ jumps_forward = before.jumps_forward
               /\ data_ends = 0

\* C7: when the stream ends inside the operands of an instruction the pass
\* panics having printed no line and moved neither the cursor nor the pending
\* sets, DataBound being none as for any instruction step; an instruction
\* line is printed only once all its operand bytes are read; and nothing
\* follows a panic.
C7_TruncatedOperandAborts ==
    [][ /\ pc # "panic"
        /\ (pc' = "panic" /\ fault' = "unwrap" /\ ~(bytes < data_ends)) =>
              /\ pos' - pos < CountArgs(instruction)
              /\ nlines' = nlines /\ line' = line
              /\ bytes' = bytes
              /\ calls' = calls /\ jumps_forward' = jumps_forward
              /\ data_ends' = 0
        /\ (nlines' > nlines /\ ~line'.data) =>
              pos' - pos = CountArgs(instruction)
      ]_vars

\* a two-operand instruction with one operand byte left in the stream
C7_Witness ==
    /\ pc = "panic" /\ fault = "unwrap"
    /\ ~(before.bytes < before.data_ends)
    /\ CountArgs(instruction) = 2
    /\ pos = bytes + 2
    /\ nlines > 0

\* C8: no byte makes the decoder hit unreachable!(), and every template has
\* 0, 1 or 2 placeholders, so parse_line never panics on the arity.
C8_DecoderTotal ==
    /\ fault \notin {"unreachable", "# OF ARGS"}
    /\ pc = "parse" =>
         /\ instruction # Unreachable
         /\ CountArgs(instruction) \in {0, 1, 2}

\* 0x36, LD (HL),#0, decoded by the last predicate of the cascade
C8_Witness ==
    /\ pc = "loop" /\ nlines = 1
    /\ line.byte = 54 /\ line.len = 2 /\ ~line.data

\* C9: only the unassigned opcodes decode to the hex fallback.
C9_FallbackOnlyUnassigned ==
    (pc = "parse" /\ instruction = FormatHex(byte)) => byte \in Unassigned

\* C10: a data run changes the cursor only: the pending sets and DataBound
\* are as they were, whatever its first byte decodes to.
C10_DataRunLeavesTracker ==
    (Stepped /\ line.data) =>
        /\ calls = before.calls
        /\ jumps_forward = before.jumps_forward
        /\ data_ends = before.data_ends
        /\ bytes > before.bytes

\* a data run whose first byte is 0xC9, with a call pending that a RET there
\* would prune
C10_Witness ==
    /\ Stepped /\ line.data /\ line.byte = 201
    /\ \E a \in Elems(calls) : a <= line.addr

\* the least pending call or forward jump strictly above an address, 0 for
\* none
LeastPendingAbove(pending_calls, pending_jumps, addr) ==
    LET ahead == {a \in Elems(pending_calls) \cup Elems(pending_jumps) : a > addr}
    IN  IF ahead = {} THEN 0 ELSE CHOOSE a \in ahead : \A o \in ahead : a <= o

\* CALL Z, CALL, CALL C
Calls == {204, 205, 220}

\* C11: after an instruction step whose mnemonic is not RET, a backward
\* unconditional JR or an unconditional JP, DataBound is none.
C11_NoStaleBound ==
    (Stepped /\ ~line.data) =>
        LET ret == line.byte = 201
            jp == line.byte = 195
            backward_jr == line.byte = 24 /\ Signed8(line.args[1]) + 2 < 0
        IN  ~(ret \/ jp \/ backward_jr) => data_ends = 0

\* C17: a RET decoded as an instruction at R sets DataBound to the least
\* address strictly above R among the pending calls and forward jumps, and
\* to none when there is none.
C17_RetRecomputesBound ==
    (Stepped /\ ~line.data /\ line.byte = 201) =>
        /\ data_ends = LeastPendingAbove(before.calls, before.jumps_forward, line.addr)
        /\ data_ends = LeastPendingAbove(calls, jumps_forward, line.addr)

\* a RET with a forward jump ahead and a call further ahead: the jump is
\* the bound
C17_Witness ==
    /\ Stepped /\ ~line.data /\ line.byte = 201
    /\ data_ends > line.addr
    /\ data_ends \in Elems(jumps_forward)
    /\ \E a \in Elems(calls) : a > data_ends

C19_CallRecordsTargetAhead ==
    (Stepped /\ ~line.data /\ line.byte \in Calls) =>
        LET a == (line.args[2] * 256) + line.args[1]
        IN  /\ calls = IF a > line.addr THEN Append(before.calls, a) ELSE before.calls
            /\ jumps_forward = before.jumps_forward
            /\ data_ends = 0

\* a call to its own address, not recorded, after a call that was
C19_Witness ==
    /\ Stepped /\ ~line.data /\ line.byte \in Calls
    /\ (line.args[2] * 256) + line.args[1] = line.addr
    /\ calls = before.calls
    /\ calls # <<>>

\* C20: JP (0xC3) sets DataBound to (second << 8) | first; every other
\* instruction with two operand bytes, JP Z and JP C included, leaves it
\* none.
C20_JumpSetsBound ==
    (Stepped /\ ~line.data /\ Len(line.args) = 2) =>
        data_ends = IF line.byte = 195
                    THEN (line.args[2] * 256) + line.args[1]
                    ELSE 0

\* a JP whose operand has the high byte 0x01
C20_Witness ==
    /\ Stepped /\ ~line.data /\ line.byte = 195
    /\ line.args[2] = 1
    /\ data_ends = 256 + line.args[1]
\* bit k of a byte
Bit(x, k) == (x \div (2 ^ k)) % 2

\* the last operation on the CPU returned
Returns(name) == op.name = name /\ op.fault = "none"

\* C13: and(R) stores in A the bitwise AND of A and R.
C13_AndStoresConjunction ==
    Returns("and") =>
        \A k \in 0..7 :
            Bit(cpu.reg8[1], k) = Bit(op.pre.reg8[1], k) * Bit(fetch8(op.pre, op.fst), k)

\* C14: splitting a u16 and combining the halves gives the u16 back, and
\* combining two bytes and splitting the result gives the two bytes back.
C14_RoundTrip ==
    /\ test.pc = "recombined" => test.combined = test.i
    /\ test.pc = "resplit" => <<test.high, test.low>> = <<test.i, test.j>>

C14_Witness ==
    /\ test.pc = "recombined"
    /\ test.i = 43981
    /\ test.high = 171
    /\ test.low = 205

\* C15: tick(time) returns with m = time and t = 4 * time for every time;
\* update_clock adds m and t to the clock and zeroes them; no operation
\* overflows, and whenever m and t are zero the clock has t = 4 * m.
C15_ClockCountsFourPerCycle ==
    /\ op.fault # "overflow"
    /\ op.name = "tick" => cpu.m = op.time /\ cpu.t = 4 * op.time
    /\ op.name = "update_clock" =>
           /\ cpu.m = 0
           /\ cpu.t = 0
           /\ cpu.clock.m = op.pre.clock.m + op.pre.m
           /\ cpu.clock.t = op.pre.clock.t + op.pre.t
           /\ cpu.clock.t = 4 * cpu.clock.m

\* C16: add8(fst, snd) on a register fst returns with fst = (i + j) mod 256,
\* the add flag set, the carry flag set whenever i + j > 255, and the
\* half-carry flag set exactly when the high nibbles of i and j share a set
\* bit.
C16_Add8 ==
    (op.name = "add8" /\ op.fst.r # "CONST") =>
        LET i == fetch8(op.pre, op.fst)
            j == fetch8(op.pre, op.snd)
        IN  /\ op.fault = "none"
            /\ fetch8(cpu, op.fst) = (i + j) % 256
            /\ cpu.flags.add
            /\ i + j > 255 => cpu.flags.carry
            /\ cpu.flags.half_carry <=> \E k \in 4..7 : Bit(i, k) = 1 /\ Bit(j, k) = 1

C16_Witness ==
    /\ Returns("add8")
    /\ op.fst = R8("B")
    /\ fetch8(op.pre, op.fst) = 240
    /\ fetch8(op.pre, op.snd) = 240
    /\ fetch8(cpu, op.fst) = 224
    /\ cpu.flags.carry
    /\ cpu.flags.half_carry

\* the predicates of the cascade that match a byte
Matching(n) == {k \in DOMAIN Predicates : Matches(n, k)}

\* C21: a byte of the exact table decodes to its table entry, also when a
\* nibble-range predicate covers it, which is so for 0x0E, 0x22, 0x2A, 0x32,
\* 0x3A and 0x76 only; any other byte decodes by the first predicate that
\* matches it.
C21_TableBeforePredicates ==
    pc = "parse" =>
        IF byte \in DOMAIN ExactTable
        THEN /\ instruction = ExactTable[byte]
             /\ Matching(byte) # {} <=> byte \in {14, 34, 42, 50, 58, 118}
        ELSE \A k \in Matching(byte) :
                 (\A j \in Matching(byte) : k <= j) => instruction = Family(k, byte)

C21_Witness ==
    /\ pc = "parse"
    /\ byte = 14
    /\ 6 \in Matching(byte)
    /\ instruction = <<"L", "D", "H", " ", "A", ",", "(", "#", "0", ")">>
    /\ instruction # Family(6, byte)

\* C25: a byte matches at most one nibble-range predicate, so a byte outside
\* the exact table decodes by any predicate that matches it, whatever the
\* order.
C25_PredicatesDisjoint ==
    byte # NoByte =>
        /\ Cardinality(Matching(byte)) <= 1
        /\ (pc = "parse" /\ byte \notin DOMAIN ExactTable) =>
               \A k \in Matching(byte) : instruction = Family(k, byte)

C25_Witness ==
    /\ pc = "parse"
    /\ byte = 136
    /\ Matching(byte) = {8}
    /\ instruction = <<"A", "D", "C", " ", "A", ",", "B">>

\* C23: a data run that reads fewer bytes than reach DataBound or make 16,
\* because the stream ends, panics in unwrap; no line is emitted for it and
\* the cursor stays.
C23_TruncatedDataRunAborts ==
    [][(pc = "parse" /\ bytes < data_ends
           /\ 1 + (pos' - pos) < Min(16, data_ends - bytes)) =>
          /\ pc' = "panic"
          /\ fault' = "unwrap"
          /\ nlines' = nlines
          /\ line' = line
          /\ bytes' = bytes]_vars

C23_Witness ==
    /\ pc = "panic"
    /\ fault = "unwrap"
    /\ bytes < data_ends
    /\ pos > bytes + 1
    /\ data_ends > pos
    /\ ~line.data
    /\ line.byte = 195

\* C24: an unconditional JP sets DataBound to its target and leaves the
\* pending sets alone; the next unit is a data run exactly when the bound is
\* above its address, and the run takes every byte up to the bound or 16
\* bytes, a pending address among them included.
C24_JumpIgnoresPending ==
    Stepped =>
        /\ (~line.data /\ line.byte = 195) =>
               /\ data_ends = (line.args[2] * 256) + line.args[1]
               /\ calls = before.calls
               /\ jumps_forward = before.jumps_forward
        /\ line.data <=> before.data_ends > line.addr
        /\ line.data => line.len = Min(16, before.data_ends - line.addr)

C24_Witness ==
    /\ Stepped
    /\ line.data
    /\ before.data_ends = line.addr + line.len
    /\ \E a \in Elems(calls) \cup Elems(jumps_forward) :
           a >= line.addr /\ a < before.data_ends

\* the pass is over
Ended == pc \in {"done", "panic"}

\* a step of a pass that has not ended: an iteration reads one opcode byte, and
\* a unit moves the cursor by at least one byte, to the end of what was read
Consumes ==
    /\ ~Ended
    /\ (pc = "loop" /\ pc' # "done") => pos' = pos + 1
    /\ (pc = "parse" /\ pc' = "loop") => (bytes' > bytes /\ pos' = bytes')

\* C22: the pass terminates; every iteration reads an opcode byte and every
\* unit moves the cursor by at least one byte; the pass ends at the exhaustion
\* of the stream on a unit boundary or at a truncated read, and nothing
\* follows the end.
C22_PassTerminates ==
    /\ <>Ended
    /\ [][Consumes]_vars
    /\ [](pc = "done" => pos = bytes)
    /\ [](pc = "panic" => fault = "unwrap")

====
